---- MODULE Spec2Model ----
(***************************************************************************)
(* Model of the baresifter execution core:                                 *)
(*   - the candidate search engine (src/common/search.cpp, search.hpp)     *)
(*   - the ring-3 execution protocol (src/x86_32/arch.cpp)                 *)
(*   - the paging set-up of the bootstrap (src/x86_32/arch.cpp)            *)
(***************************************************************************)
EXTENDS Integers, Sequences, FiniteSets, TLC

(***************************************************************************)
(* Program constants                                                       *)
(***************************************************************************)
\* sizeof(instruction_bytes::raw): x86 instructions are at most 15 bytes long.
RawSize == 15
\* Number of prefix groups: array_size(prefix_state::count).
GroupCount == 5
\* uint8_t arithmetic is modulo 2^8.
ByteMod == 256
\* (size_t)0 - 1, the value increment_at_-- leaves behind at index 0.  size_t
\* values above 2^31 - 1 are kept as their two's complement (2^32 - 1 as -1),
\* the range of TLC's integers.
SIZE_MAX == -1
\* A cursor outside the buffer other than SIZE_MAX is kept by class, not by
\* value: how far a call moves such a cursor depends on the bytes around the
\* engine object, and no number bounds it.  Below stands for every value
\* under SIZE_MAX (SIZE_MAX - 1, SIZE_MAX - 2, ...), Above for every value
\* from 16 upwards: the offsets of the cursor, of the other members and of
\* what lies behind the object.  Padding is offset 15 itself, the byte
\* between raw[14] and the aligned size_t increment_at_.
Below == -2
Padding == RawSize
Above == RawSize + 1
\* A member that a store outside the buffer has changed and that no code of
\* search.cpp reads (used_prefixes_, group_lut_) is kept as Altered, whatever
\* its value.  max_prefixes_ is read: its value is kept, and sizeof(raw)
\* stands for every value from sizeof(raw) upwards, which no prefix run
\* exceeds.
Altered == -1

(***************************************************************************)
(* Bounds of the model                                                     *)
(***************************************************************************)
\* Number of API calls explored after construction.
MaxCalls == 2
\* Passes of the `again:` loop followed within one call.  With the cursor in
\* the buffer a call makes at most RawSize * ByteMod = 3840 passes (each
\* index is left after at most 256 increments and the cursor only moves
\* left), so no such call is cut short.
MaxIter == 3840
\* Where the engine object ends for the lengths given to start_over: with a
\* four-byte size_t the cursor is at offsets 16..19, max_prefixes_ at 20..23
\* and used_prefixes_ at 24..27; with an eight-byte size_t they are at
\* 16..23, 24..31 and 32..39.  start_over(MemberLength) puts the cursor on
\* offset 24, a member in both layouts.
MemberLength == 25

\* The constructor stores its two masks in the members used_prefixes_ and
\* group_lut_ (search.hpp:49-51).  search.cpp reads neither member: its
\* filters read the namespace-scope names used_prefixes and detect_prefixes,
\* which it does not declare and which are set before any engine exists.
VARIABLES
  current_,          \* search_engine::current_.raw, index 0..14
  increment_at_,     \* search_engine::increment_at_ (size_t, by cursor_class)
  max_prefixes_,     \* search_engine::max_prefixes_
  configured_maximum, \* the max_prefixes the constructor was called with
  used_prefixes_,    \* search_engine::used_prefixes_, the permitted mask given
  group_lut_,        \* search_engine::group_lut_, as the detect mask given
  used_prefixes,     \* namespace-scope used_prefixes (bitmask)
  detect_prefixes,   \* namespace-scope detect_prefixes (bitmask)
  ret,               \* result of the last find_next_candidate call
                     \* ("no_return" if it did not return)
  op,                \* the last operation that ran
  arg,               \* its argument (start_over length, clear_after pos)
  entry_raw,         \* current_.raw when the last operation was entered
  entry_at,          \* increment_at_ when the last operation was entered
                     \* (0 for start_over, which overwrites it unread)
  first_write,       \* <<index, value>> of the first byte store of the last call
  calls,             \* API calls made so far
  yielded,           \* the candidates find_next_candidate has returned, in order
  pc,                \* where the single thread of control is (arch.cpp)
  ring0_continuation,     \* static void *ring0_continuation
  ring3_exception_frame,  \* static exception_frame *ring3_exception_frame
  tss_esp0,          \* tss.esp0
  esp,               \* the stack pointer register
  user,              \* execute_user's local exception_frame user
  ef,                \* the frame irq_entry is entered with
  result,            \* the frame the last execute_user call returned
  clears,            \* times irq_entry cleared ring0_continuation in this run
  console,           \* what print_exception and irq_entry have written
  boot,              \* where setup_paging is
  image_start,       \* _image_start
  image_end,         \* _image_end
  cpu,               \* what has_pse(), has_wp(), has_smep() report
  page_tables_start, \* setup_paging's local page_tables_start
  pdt,               \* static uint32_t pdt[1024]
  user_pt,           \* static uint32_t user_pt[1024]
  mem,               \* memory outside the image written through t[d]
  cr0, cr3, cr4      \* control registers; cr0 and cr4 as sets of set bits

\* The members behind the cursor in the engine object (search.hpp:27-29).
mvars == <<max_prefixes_, used_prefixes_, group_lut_>>

\* What no operation called with arguments in range changes once the engine
\* is constructed.
cvars == <<mvars, configured_maximum, used_prefixes, detect_prefixes>>

svars == <<current_, increment_at_, cvars, ret, op, arg, entry_raw, entry_at,
           first_write, calls, yielded>>

\* The paging state set up by setup_paging.
bvars == <<boot, image_start, image_end, cpu, page_tables_start, pdt, user_pt,
           mem, cr0, cr3, cr4>>

avars == <<pc, ring0_continuation, ring3_exception_frame, tss_esp0, esp, user,
           ef, result, clears, console, bvars>>

vars == <<svars, avars>>

Index == 0 .. (RawSize - 1)

\* The value the model keeps for the size_t cursor value v.
cursor_class(v) ==
  IF v \in Index \/ v = SIZE_MAX \/ v = Padding THEN v
  ELSE IF v < SIZE_MAX THEN Below
  ELSE Above
Groups == 0 .. (GroupCount - 1)

\* (mask & (1 << k)) != 0
BitTest(mask, k) == ((mask \div (2 ^ k)) % 2) = 1

(***************************************************************************)
(* search.cpp: prefix classification                                       *)
(***************************************************************************)
opcode_to_prefix_group(byte) ==
  CASE byte \in {240, 242, 243} ->                 \* 0xF0 0xF2 0xF3
         IF BitTest(detect_prefixes, 0) THEN 0 ELSE -1
    [] byte \in {46, 54, 62, 38, 100, 101} ->      \* 2E 36 3E 26 64 65
         IF BitTest(detect_prefixes, 1) THEN 1 ELSE -1
    [] byte = 102 ->                               \* 0x66
         IF BitTest(detect_prefixes, 2) THEN 2 ELSE -1
    [] byte = 103 ->                               \* 0x67
         IF BitTest(detect_prefixes, 3) THEN 3 ELSE -1
    [] byte \in 64 .. 79 ->                        \* 0x40 ... 0x4F
         IF BitTest(detect_prefixes, 4) THEN 4 ELSE -1
    [] OTHER -> -1

\* create_prefix_group_lut(): data[i] = (int8_t) opcode_to_prefix_group(i).
\* The file-static table is built once at start-up; detect_prefixes does not
\* change afterwards.
prefix_group_lut == [i \in 0 .. (ByteMod - 1) |-> opcode_to_prefix_group(i)]

\* prefix_state {}: both arrays value-initialised to zero.
prefix_state_init ==
  [count |-> [g \in Groups |-> 0], position |-> [g \in Groups |-> 0]]

RECURSIVE sum_counts(_, _)
sum_counts(state, g) ==
  IF g = GroupCount THEN 0 ELSE state.count[g] + sum_counts(state, g + 1)

total_prefix_bytes(state) == sum_counts(state, 0)

\* Mutant: `c > 2` for `c >= 2`.
has_duplicated_prefixes_gt(state) == \E g \in Groups : state.count[g] > 2

has_duplicated_prefixes(state) == \E g \in Groups : state.count[g] >= 2

has_unused_prefixes(state) ==
  \E i \in Groups : state.count[i] # 0 /\ ~BitTest(used_prefixes, i)

\* Mutant: the position comparison is reversed.
has_ordered_prefixes_reversed(state) ==
  ~ \E i \in 0 .. (GroupCount - 2) : \E j \in (i + 1) .. (GroupCount - 1) :
        /\ state.count[i] # 0
        /\ state.count[j] # 0
        /\ state.position[i] < state.position[j]

has_ordered_prefixes(state) ==
  ~ \E i \in 0 .. (GroupCount - 2) : \E j \in (i + 1) .. (GroupCount - 1) :
        /\ state.count[i] # 0
        /\ state.count[j] # 0
        /\ state.position[i] > state.position[j]

RECURSIVE analyze_loop(_, _, _)
analyze_loop(raw, i, state) ==
  IF i >= RawSize THEN state
  ELSE LET group == prefix_group_lut[raw[i]] IN
       IF group < 0 THEN state
       ELSE analyze_loop(raw, i + 1,
              [count    |-> [state.count EXCEPT ![group] = (@ + 1) % ByteMod],
               position |-> [state.position EXCEPT ![group] = i]])

analyze_prefixes(raw) == analyze_loop(raw, 0, prefix_state_init)

\* The condition of the `goto again` at search.cpp:171-176, with max the
\* value of max_prefixes_ it reads.
rejected(state, max) ==
  \/ total_prefix_bytes(state) > max
  \/ has_duplicated_prefixes(state)
  \/ has_unused_prefixes(state)
  \/ ~has_ordered_prefixes(state)

(***************************************************************************)
(* search.cpp: find_next_candidate.  The loop state is the engine object   *)
(* (the buffer raw, the cursor at and the members max, used and lut behind *)
(* them), the result ("running" while inside the loop) and first, the      *)
(* first byte store <<index, value>> of the call.                          *)
(***************************************************************************)
\* Mutant: the wrap test compares with 0xFF instead of 0.
again_wrap_at_ff(s) ==
  LET raw1 == [s.raw EXCEPT ![s.at] = (@ + 1) % ByteMod]
      first1 == IF s.first = <<>> THEN <<s.at, raw1[s.at]>> ELSE s.first
      s1 == [s EXCEPT !.raw = raw1, !.first = first1]
  IN IF raw1[s.at] = 255
     THEN IF s.at = 0
          THEN [s1 EXCEPT !.at = SIZE_MAX, !.ret = "false"]
          ELSE [s1 EXCEPT !.at = s.at - 1]
     ELSE IF rejected(analyze_prefixes(raw1), s.max)
          THEN s1
          ELSE [s1 EXCEPT !.ret = "true"]

\* One pass from the label `again:` to `goto again` or to a return.
again(s) ==
  LET raw1 == [s.raw EXCEPT ![s.at] = (@ + 1) % ByteMod]
      first1 == IF s.first = <<>> THEN <<s.at, raw1[s.at]>> ELSE s.first
      s1 == [s EXCEPT !.raw = raw1, !.first = first1]
  IN IF raw1[s.at] = 0
     THEN IF s.at = 0
          THEN [s1 EXCEPT !.at = SIZE_MAX, !.ret = "false"]
          ELSE [s1 EXCEPT !.at = s.at - 1]
     ELSE IF rejected(analyze_prefixes(raw1), s.max)
          THEN s1
          ELSE [s1 EXCEPT !.ret = "true"]

\* At most n passes of the loop from s, stopping at the first return.  The
\* passes are composed in halves to keep the evaluation shallow; half names
\* the state after the first half.
RECURSIVE again_loop(_, _)
again_loop(s, n) ==
  IF s.ret # "running" \/ n = 0 THEN s
  ELSE IF n = 1 THEN again(s)
  ELSE CHOOSE r \in { again_loop(half, n - (n \div 2)) :
                        half \in {again_loop(s, n \div 2)} } : TRUE

\* The members <<max_prefixes_, used_prefixes_, group_lut_>> after a call
\* that returned with the cursor above the buffer.  The members lie behind
\* the cursor in the object (search.hpp:25-29), so the store of
\* search.cpp:154 at an index from 16 upwards lands on the cursor, on one
\* of them or behind the object, and a byte that wraps takes the store to
\* the member below.  A store into max_prefixes_ adds one to one of its
\* bytes, once for every pass of the loop: the call returns with a larger
\* maximum.
stored_members(s) ==
  { <<m, u, g>> : m \in s.max .. RawSize,
                  u \in {s.used, Altered},
                  g \in {s.lut, Altered} }

\* The members after every byte from the cursor down to index 15 has
\* wrapped to zero: a member the cursor started on or above has its bytes
\* from the cursor down at zero (max_prefixes_ and used_prefixes_ with their
\* low byte at zero hold 0, or a value of sizeof(raw) and more as before),
\* a member above the cursor is as it was.
wrapped_members(s) ==
  { <<m, u, g>> : m \in {s.max, 0},
                  u \in {s.used, Altered},
                  g \in {s.lut, Altered} }

\* The loop with the cursor outside current_.raw: undefined behaviour.  The
\* increment lands on a byte of unknown value next to the buffer.  first
\* keeps the index of the store only.
\*  - On the padding byte the filters still see the buffer as it is: the
\*    call returns true if the byte did not wrap and the buffer passes, and
\*    once the byte wraps the cursor is at index 14 and the loop goes on
\*    inside the buffer.
\*  - Above it the store hits the cursor itself, another member or what
\*    lies behind the object.  Where the build reads the cursor back from
\*    the object, the call returns true with the cursor still above the
\*    buffer and the members of stored_members, or does not return.  Where
\*    the build keeps the cursor in a register, the stores do not redirect
\*    it: byte after byte wraps, the cursor comes down to index 14 with the
\*    members of wrapped_members, and the loop goes on inside the buffer,
\*    its filter reading the maximum as it now is.
\*  - In front of the object (SIZE_MAX and below) the call returns true with
\*    the cursor where it was (the byte did not wrap) or further down by as
\*    many bytes as wrapped, or does not return.
\* Outside the padding byte the stores may hit what the filters read, so
\* the outcomes do not depend on whether the buffer passes.
again_outside(s) ==
  LET first1 == IF s.first = <<>> THEN <<s.at>> ELSE s.first
      stay == [s EXCEPT !.ret = "true", !.first = first1]
      inside == [s EXCEPT !.at = RawSize - 1, !.first = first1]
  IN IF s.at = Padding
     THEN {again_loop(inside, MaxIter)}
          \cup (IF rejected(analyze_prefixes(s.raw), s.max) THEN {}
                ELSE {stay})
     ELSE IF s.at = Above
     THEN { [stay EXCEPT !.max = m[1], !.used = m[2], !.lut = m[3]] :
              m \in stored_members(s) }
          \cup {[stay EXCEPT !.ret = "no_return"]}
          \cup UNION { { [r EXCEPT !.used = w[2], !.lut = w[3]] :
                           w \in {x \in wrapped_members(s) : x[1] = r.max} } :
                       r \in { again_loop([inside EXCEPT !.max = m], MaxIter) :
                                 m \in {w[1] : w \in wrapped_members(s)} } }
     ELSE {stay, [stay EXCEPT !.at = Below],
           [stay EXCEPT !.ret = "no_return", !.at = Below]}

\* The results a call may return from the engine object as it is.
find_next_results(raw, at) ==
  LET s == [raw |-> raw, at |-> at, ret |-> "running", first |-> <<>>,
            max |-> max_prefixes_, used |-> used_prefixes_,
            lut |-> group_lut_]
  IN IF at \in Index
     THEN {again_loop(s, MaxIter)}
     ELSE again_outside(s)

(***************************************************************************)
(* Operations of search_engine                                             *)
(***************************************************************************)
find_next_candidate ==
  /\ \E r \in find_next_results(current_, increment_at_) :
       /\ current_' = r.raw
       /\ increment_at_' = r.at
       /\ ret' = r.ret
       /\ first_write' = r.first
       /\ yielded' = IF r.ret = "true" THEN Append(yielded, r.raw)
                                        ELSE yielded
       /\ max_prefixes_' = r.max
       /\ used_prefixes_' = r.used
       /\ group_lut_' = r.lut
  /\ op' = "find_next_candidate"
  /\ arg' = 0
  /\ entry_raw' = current_
  /\ entry_at' = increment_at_
  /\ calls' = calls + 1
  /\ UNCHANGED <<configured_maximum, used_prefixes, detect_prefixes>>

\* Mutant: the cursor is set to length, not length - 1.
start_over_no_decrement(length) ==
  /\ increment_at_' = cursor_class(length)
  /\ op' = "start_over"
  /\ arg' = length
  /\ entry_raw' = current_
  /\ entry_at' = 0
  /\ first_write' = <<>>
  /\ calls' = calls + 1
  /\ UNCHANGED <<current_, cvars, ret, yielded>>

start_over(length) ==
  /\ increment_at_' = cursor_class(length - 1)
  /\ op' = "start_over"
  /\ arg' = length
  /\ entry_raw' = current_
  /\ entry_at' = 0
  /\ first_write' = <<>>
  /\ calls' = calls + 1
  /\ UNCHANGED <<current_, cvars, ret, yielded>>

\* Mutant: the memset starts one byte late.
clear_after_late(pos) ==
  /\ current_' = IF pos < RawSize
                 THEN [i \in Index |-> IF i >= pos + 1 THEN 0 ELSE current_[i]]
                 ELSE current_
  /\ op' = "clear_after"
  /\ arg' = pos
  /\ entry_raw' = current_
  /\ entry_at' = increment_at_
  /\ first_write' = <<>>
  /\ calls' = calls + 1
  /\ UNCHANGED <<increment_at_, cvars, ret, yielded>>

clear_after(pos) ==
  /\ current_' = IF pos < RawSize
                 THEN [i \in Index |-> IF i >= pos THEN 0 ELSE current_[i]]
                 ELSE current_
  /\ op' = "clear_after"
  /\ arg' = pos
  /\ entry_raw' = current_
  /\ entry_at' = increment_at_
  /\ first_write' = <<>>
  /\ calls' = calls + 1
  /\ UNCHANGED <<increment_at_, cvars, ret, yielded>>

(***************************************************************************)
(* arch.cpp: setup_paging.  boot is                                        *)
(*   "reset"        before setup_paging                                    *)
(*   "aligned"      the alignment assertion of line 65 has passed          *)
(*   "directory"    the image's directory entries are written (69-84)      *)
(*   "tables"       the second-level tables are filled (85-100)            *)
(*   "user_mapped"  the user page is mapped (102-107)                      *)
(*   "paging"       CR4, CR3 and CR0 are loaded (109-114)                  *)
(*   "assert_alignment_failed", "assert_user_page_failed"                  *)
(*                  the assertion of line 65 or of line 105 has failed:    *)
(*                  message, then wait_forever()                           *)
(* Addresses stay below 2^31, so no uintptr_t sum wraps.                   *)
(***************************************************************************)
page_size == 4096
\* 1U << 22, the span of one page-directory entry.
LargePage == 4194304
\* page_size / sizeof(uint32_t), the entries of pdt and of user_pt.
TableEntries == 1024
\* The last value of d the loop `for (d = 0; d <= 1024;)` runs its body for.
FillLast == 1024
\* Page-table entry bits.
PTE_P == 1
PTE_W == 2
PTE_U == 4
PTE_PS == 128

\* a | b on non-negative integers.
RECURSIVE BitOr(_, _)
BitOr(a, b) ==
  IF a = 0 THEN b
  ELSE IF b = 0 THEN a
  ELSE (IF a % 2 = 1 \/ b % 2 = 1 THEN 1 ELSE 0)
       + 2 * BitOr(a \div 2, b \div 2)

\* Bits [lo, hi) of v.
bit_select(hi, lo, v) == (v \div (2 ^ lo)) % (2 ^ (hi - lo))

is_aligned(v, order) == v % (2 ^ order) = 0

get_user_page == 1048576 + page_size

\* The page-aligned statics of arch.cpp lie inside the image; the linker
\* places them, here on its second, third and fourth page.
AddrPdt(istart) == istart + page_size
AddrUserPt(istart) == istart + 2 * page_size
get_user_page_backing(istart) == istart + 3 * page_size

\* Lines 58-63: iend + 4 MiB, rounded up to the next 4 KiB boundary.
page_tables_start_of(iend) ==
  LET start == iend + LargePage
  IN IF start % 4096 # 0 THEN ((start + 4095) \div 4096) * 4096 ELSE start

\* The values c takes in `for (c = istart; c <= iend; c += (1U << 22))`.
image_slots(istart, iend) ==
  { istart + i * LargePage : i \in 0 .. ((iend - istart) \div LargePage) }

\* A table is kept as the entries stored to so far; every other entry holds
\* the zero of its static initialisation.  table_zero has none stored.
table_zero == [i \in {} |-> 0]
load(tbl, i) == IF i \in DOMAIN tbl THEN tbl[i] ELSE 0
store(tbl, i, v) ==
  [j \in (DOMAIN tbl) \cup {i} |-> IF j = i THEN v ELSE tbl[j]]

\* Lines 69-84: one directory entry per slot, a 4 MiB page or the slot's
\* second-level table.
map_image(dir, istart, iend, pse, pts) ==
  [idx \in (DOMAIN dir)
           \cup { c \div LargePage : c \in image_slots(istart, iend) } |->
     IF \E c \in image_slots(istart, iend) : c \div LargePage = idx
     THEN LET c == CHOOSE x \in image_slots(istart, iend) :
                     x \div LargePage = idx
              p == IF pse THEN BitOr(c, PTE_PS)
                   ELSE pts + ((c - istart) \div LargePage) * 4096
          IN BitOr(BitOr(PTE_P, PTE_W), p)
     ELSE dir[idx]]

\* Mutant: m is advanced before the store, so entry d maps page d + 1.
write_table_skewed(m, t, c) ==
  LET new == [a \in { t + 4 * d : d \in 0 .. FillLast } |->
                BitOr(BitOr(c + (((a - t) \div 4) + 1) * 4096, PTE_P), PTE_W)]
  IN [a \in (DOMAIN m) \cup (DOMAIN new) |->
        IF a \in DOMAIN new THEN new[a] ELSE m[a]]

\* Lines 91-97: the stores t[d] = m | PTE_P | PTE_W of one table at t for
\* the slot c, on top of the memory m written so far.
write_table(m, t, c) ==
  LET new == [a \in { t + 4 * d : d \in 0 .. FillLast } |->
                BitOr(BitOr(c + ((a - t) \div 4) * 4096, PTE_P), PTE_W)]
  IN [a \in (DOMAIN m) \cup (DOMAIN new) |->
        IF a \in DOMAIN new THEN new[a] ELSE m[a]]

\* Lines 88-99: the tables in the order of the slots.
RECURSIVE fill_tables(_, _, _, _)
fill_tables(m, c, iend, tablepos) ==
  IF c > iend THEN m
  ELSE fill_tables(write_table(m, tablepos, c), c + LargePage, iend,
                   tablepos + 4096)

\* Memory outside the image, by address, with no entry stored.
mem_empty == [a \in {} |-> 0]

\* Lines 106-107.
user_pde(istart) == BitOr(BitOr(AddrUserPt(istart), PTE_U), PTE_P)
user_pte(istart) == BitOr(BitOr(get_user_page_backing(istart), PTE_U), PTE_P)

\* Mutant: the alignment assertion is missing.
setup_paging_start_no_assert ==
  /\ boot = "reset"
  /\ page_tables_start' = page_tables_start_of(image_end)
  /\ boot' = "aligned"
  /\ UNCHANGED <<image_start, image_end, cpu, pdt, user_pt, mem, cr0, cr3,
                 cr4>>
  /\ UNCHANGED <<svars, pc, ring0_continuation, ring3_exception_frame,
                 tss_esp0, esp, user, ef, result, clears, console>>

\* Lines 54-65: read the features and the image bounds, compute
\* page_tables_start, assert the alignment of the image.
setup_paging_start ==
  /\ boot = "reset"
  /\ page_tables_start' = page_tables_start_of(image_end)
  /\ boot' = IF is_aligned(image_start, 22) THEN "aligned"
                                             ELSE "assert_alignment_failed"
  /\ UNCHANGED <<image_start, image_end, cpu, pdt, user_pt, mem, cr0, cr3,
                 cr4>>
  /\ UNCHANGED <<svars, pc, ring0_continuation, ring3_exception_frame,
                 tss_esp0, esp, user, ef, result, clears, console>>

\* Lines 67-84.
setup_paging_directory ==
  /\ boot = "aligned"
  /\ pdt' = map_image(pdt, image_start, image_end, cpu.pse,
                      page_tables_start)
  /\ boot' = "directory"
  /\ UNCHANGED <<image_start, image_end, cpu, page_tables_start, user_pt,
                 mem, cr0, cr3, cr4>>
  /\ UNCHANGED <<svars, pc, ring0_continuation, ring3_exception_frame,
                 tss_esp0, esp, user, ef, result, clears, console>>

\* Lines 85-100.
setup_paging_tables ==
  /\ boot = "directory"
  /\ mem' = IF cpu.pse THEN mem
            ELSE fill_tables(mem, image_start, image_end, page_tables_start)
  /\ boot' = "tables"
  /\ UNCHANGED <<image_start, image_end, cpu, page_tables_start, pdt,
                 user_pt, cr0, cr3, cr4>>
  /\ UNCHANGED <<svars, pc, ring0_continuation, ring3_exception_frame,
                 tss_esp0, esp, user, ef, result, clears, console>>

\* Mutant: the user page is mapped without the assertion.
setup_paging_user_no_assert ==
  /\ boot = "tables"
  /\ pdt' = store(pdt, bit_select(32, 22, get_user_page),
                  user_pde(image_start))
  /\ user_pt' = store(user_pt, bit_select(22, 12, get_user_page),
                      user_pte(image_start))
  /\ boot' = "user_mapped"
  /\ UNCHANGED <<image_start, image_end, cpu, page_tables_start, mem, cr0,
                 cr3, cr4>>
  /\ UNCHANGED <<svars, pc, ring0_continuation, ring3_exception_frame,
                 tss_esp0, esp, user, ef, result, clears, console>>

\* Lines 102-107.
setup_paging_user ==
  /\ boot = "tables"
  /\ IF get_user_page + page_size <= image_start
     THEN /\ pdt' = store(pdt, bit_select(32, 22, get_user_page),
                          user_pde(image_start))
          /\ user_pt' = store(user_pt, bit_select(22, 12, get_user_page),
                              user_pte(image_start))
          /\ boot' = "user_mapped"
     ELSE /\ boot' = "assert_user_page_failed"
          /\ UNCHANGED <<pdt, user_pt>>
  /\ UNCHANGED <<image_start, image_end, cpu, page_tables_start, mem, cr0,
                 cr3, cr4>>
  /\ UNCHANGED <<svars, pc, ring0_continuation, ring3_exception_frame,
                 tss_esp0, esp, user, ef, result, clears, console>>

\* Lines 109-114.
setup_paging_enable ==
  /\ boot = "user_mapped"
  /\ cr4' = IF cpu.pse \/ cpu.smep
            THEN cr4 \cup (IF cpu.pse THEN {"PSE"} ELSE {})
                     \cup (IF cpu.smep THEN {"SMEP"} ELSE {})
            ELSE cr4
  /\ cr3' = AddrPdt(image_start)
  /\ cr0' = cr0 \cup {"PG"} \cup (IF cpu.wp THEN {"WP"} ELSE {})
  /\ boot' = "paging"
  /\ UNCHANGED <<image_start, image_end, cpu, page_tables_start, pdt,
                 user_pt, mem>>
  /\ UNCHANGED <<svars, pc, ring0_continuation, ring3_exception_frame,
                 tss_esp0, esp, user, ef, result, clears, console>>

\* The machine as setup_arch finds it: protected mode, paging off, the
\* statics zero.
reset_state(istart, iend, features) ==
  /\ boot = "reset"
  /\ image_start = istart
  /\ image_end = iend
  /\ cpu = features
  /\ page_tables_start = 0
  /\ pdt = table_zero
  /\ user_pt = table_zero
  /\ mem = mem_empty
  /\ cr0 = {"PE"}
  /\ cr3 = 0
  /\ cr4 = {}

\* The machine after setup_paging has run through for an image at 4 MiB on
\* a processor with large pages and write protection.
paging_on ==
  LET istart == LargePage
      iend == LargePage + 32768
  IN /\ boot = "paging"
     /\ image_start = istart
     /\ image_end = iend
     /\ cpu = [pse |-> TRUE, wp |-> TRUE, smep |-> FALSE]
     /\ page_tables_start = page_tables_start_of(iend)
     /\ pdt = store(map_image(table_zero, istart, iend, TRUE,
                               page_tables_start_of(iend)),
                     bit_select(32, 22, get_user_page), user_pde(istart))
     /\ user_pt = store(table_zero, bit_select(22, 12, get_user_page),
                         user_pte(istart))
     /\ mem = mem_empty
     /\ cr0 = {"PE", "PG", "WP"}
     /\ cr3 = AddrPdt(istart)
     /\ cr4 = {"PSE"}

(***************************************************************************)
(* arch.cpp: execute_user and irq_entry.  One thread of control; pc is      *)
(*   "idle"      privileged code outside execute_user                      *)
(*   "prepared"  execute_user after line 200, before the asm statement      *)
(*   "irq_exit"  the continuation is stored, control is in irq_exit        *)
(*   "ring3"     reduced-privilege code runs with the trap flag set        *)
(*   "irq_entry" an exception was delivered, irq_entry(ef) is entered      *)
(*   "resumed"   control is at label 1: of execute_user                    *)
(*   "halted"    wait_forever()                                            *)
(***************************************************************************)
\* Selectors of the six-entry descriptor table of setup_gdt: index << 3 | RPL.
ring0_code_selector == 8
ring3_code_selector == 35
ring3_data_selector == 43
\* Entries of the interrupt table, one per architectural exception vector.
irq_entry_count == 32
\* exception_frame::eflags of the template: (1 /* TF */ << 8) | 2.
UserEflags == 258

NULL == "nullptr"
\* The address of label 1: in execute_user, and of its local `user`.
Label1 == "execute_user.1"
AddrUser == "&user"

\* exception_frame {}: every field zero.
exception_frame_zero ==
  [vector |-> 0, error_code |-> 0, cs |-> 0, ip |-> 0, eflags |-> 0,
   ss |-> 0, edi |-> 0, esi |-> 0]

\* Entry addresses explored, and values of the caller's stack pointer.
EntryIps == {1052672, 1052673}
KernelStacks == {65536, 65520}
\* Bytes between the caller's stack pointer and the stack pointer inside
\* execute_user at the asm statement: the address of the result and the
\* return address pushed for the call, and what the prologue pushes.  The
\* epilogue and `ret $4` take the same bytes off again.
FrameDepth == 24
\* Values the CR2 register may hold when print_exception reads it: the
\* linear address of the last page fault.
Cr2Values == {0, 1052672}

\* What the processor may push when reduced-privilege code started at ip
\* traps or faults: any vector, from ring 3.
UserFrames(ip) ==
  { [vector |-> v, error_code |-> e, cs |-> ring3_code_selector, ip |-> i,
     eflags |-> UserEflags, ss |-> ring3_data_selector, edi |-> r, esi |-> 0] :
      v \in 0 .. (irq_entry_count - 1), e \in {0}, i \in {ip}, r \in {0} }
  \cup
  { [vector |-> 14, error_code |-> e, cs |-> ring3_code_selector, ip |-> i,
     eflags |-> UserEflags, ss |-> ring3_data_selector, edi |-> r, esi |-> 0] :
      e \in {4, 5}, i \in {ip, ip + 1}, r \in {0, 7} }

\* What the processor may push for an exception taken in privileged code
\* (NMI, #MC): the privileged code selector.
KernelFrames ==
  { [vector |-> v, error_code |-> 0, cs |-> ring0_code_selector, ip |-> 0,
     eflags |-> 2, ss |-> 0, edi |-> 0, esi |-> 0] : v \in {2, 18} }

InitArch ==
  /\ pc = "idle"
  /\ ring0_continuation = NULL
  /\ ring3_exception_frame = NULL
  /\ tss_esp0 = 0
  /\ user = exception_frame_zero
  /\ ef = exception_frame_zero
  /\ result = exception_frame_zero
  /\ clears = 0
  /\ console = <<>>

\* execute_user, lines 191-200: enter the function, build the template,
\* publish the capture slot.
execute_user_prepare(ip) ==
  /\ pc = "idle"
  /\ esp' = esp - FrameDepth
  /\ user' = [exception_frame_zero EXCEPT !.cs = ring3_code_selector,
                                          !.ip = ip,
                                          !.ss = ring3_data_selector,
                                          !.eflags = UserEflags]
  /\ ring3_exception_frame' = AddrUser
  /\ clears' = 0
  /\ pc' = "prepared"
  /\ UNCHANGED <<ring0_continuation, tss_esp0, ef, result, svars, console,
                 bvars>>

\* execute_user, lines 206-212: store the continuation and the privileged
\* stack pointer, point esp at the template, jump to irq_exit.
execute_user_transfer ==
  /\ pc = "prepared"
  /\ ring0_continuation' = Label1
  /\ tss_esp0' = esp
  /\ esp' = esp + FrameDepth + 16   \* lea user: the frame to be returned
  /\ pc' = "irq_exit"
  /\ UNCHANGED <<ring3_exception_frame, user, ef, result, clears, svars,
                 console, bvars>>

\* irq_exit: restore the registers of the template and iret to ring 3.
irq_exit ==
  /\ pc = "irq_exit"
  /\ pc' = "ring3"
  /\ UNCHANGED <<ring0_continuation, ring3_exception_frame, tss_esp0, esp,
                 user, ef, result, clears, svars, console, bvars>>

\* The trap flag ends the reduced-privilege run after at most one
\* instruction: the processor switches to tss.esp0, pushes the frame and
\* enters the vector's stub, which calls irq_entry.
user_exception ==
  /\ pc = "ring3"
  /\ \E f \in UserFrames(user.ip) : ef' = f
  /\ esp' = tss_esp0 - 64       \* the frame lies below tss.esp0
  /\ pc' = "irq_entry"
  /\ UNCHANGED <<ring0_continuation, ring3_exception_frame, tss_esp0, user,
                 result, clears, svars, console, bvars>>

\* An exception taken while privileged code runs.
kernel_exception ==
  /\ pc \in {"idle", "prepared", "irq_exit", "resumed"}
  /\ \E f \in KernelFrames : ef' = f
  /\ pc' = "irq_entry"
  /\ UNCHANGED <<ring0_continuation, ring3_exception_frame, tss_esp0, esp,
                 user, result, clears, svars, console, bvars>>

WeAreDead == [text |-> "!!! We're dead...", values |-> <<>>]

\* The four lines print_exception(ef) formats: three from the frame, the
\* second from the CR2 register, here cr2.
print_exception(f, cr2) ==
  << [text |-> "!!! exception ",
      values |-> <<f.vector, f.error_code, f.cs, f.ip>>],
     [text |-> "!!! CR2 ", values |-> <<cr2>>],
     [text |-> "!!! EDI ", values |-> <<f.edi>>],
     [text |-> "!!! ESI ", values |-> <<f.esi>>] >>

\* What the fatal path of irq_entry may leave on the console.
fatal_output(f) ==
  { console \o print_exception(f, cr2) \o <<WeAreDead>> : cr2 \in Cr2Values }

\* jmp *ret: where control is after the jump.
jump_to(target) == IF target = Label1 THEN "resumed" ELSE "wild"

\* Mutant: the handler forgets to clear ring0_continuation.
irq_entry_keeps_continuation ==
  /\ pc = "irq_entry"
  /\ IF (ef.cs % 4) # 0 /\ ring0_continuation # NULL
     THEN /\ ring0_continuation' = ring0_continuation
          /\ clears' = clears
          /\ IF ring3_exception_frame # NULL
             THEN /\ user' = ef
                  /\ ring3_exception_frame' = NULL
             ELSE UNCHANGED <<user, ring3_exception_frame>>
          /\ esp' = tss_esp0
          /\ pc' = jump_to(ring0_continuation)
          /\ UNCHANGED console
     ELSE /\ console' \in fatal_output(ef)
          /\ pc' = "halted"           \* wait_forever()
          /\ UNCHANGED <<ring0_continuation, clears, user,
                         ring3_exception_frame, esp>>
  /\ UNCHANGED <<tss_esp0, ef, result, svars, bvars>>

\* Mutant: the handler does not look at the privilege of the frame.
irq_entry_any_privilege ==
  /\ pc = "irq_entry"
  /\ IF ring0_continuation # NULL
     THEN /\ ring0_continuation' = NULL
          /\ clears' = clears + 1
          /\ IF ring3_exception_frame # NULL
             THEN /\ user' = ef
                  /\ ring3_exception_frame' = NULL
             ELSE UNCHANGED <<user, ring3_exception_frame>>
          /\ esp' = tss_esp0
          /\ pc' = jump_to(ring0_continuation)
          /\ UNCHANGED console
     ELSE /\ console' \in fatal_output(ef)
          /\ pc' = "halted"           \* wait_forever()
          /\ UNCHANGED <<ring0_continuation, clears, user,
                         ring3_exception_frame, esp>>
  /\ UNCHANGED <<tss_esp0, ef, result, svars, bvars>>

\* Mutant: the handler does not copy the frame into the capture slot.
irq_entry_no_copy ==
  /\ pc = "irq_entry"
  /\ IF (ef.cs % 4) # 0 /\ ring0_continuation # NULL
     THEN /\ ring0_continuation' = NULL
          /\ clears' = clears + 1
          /\ IF ring3_exception_frame # NULL
             THEN /\ user' = user
                  /\ ring3_exception_frame' = NULL
             ELSE UNCHANGED <<user, ring3_exception_frame>>
          /\ esp' = tss_esp0
          /\ pc' = jump_to(ring0_continuation)
          /\ UNCHANGED console
     ELSE /\ console' \in fatal_output(ef)
          /\ pc' = "halted"           \* wait_forever()
          /\ UNCHANGED <<ring0_continuation, clears, user,
                         ring3_exception_frame, esp>>
  /\ UNCHANGED <<tss_esp0, ef, result, svars, bvars>>

\* Mutant: the fatal path halts without the diagnostic.
irq_entry_silent ==
  /\ pc = "irq_entry"
  /\ IF (ef.cs % 4) # 0 /\ ring0_continuation # NULL
     THEN /\ ring0_continuation' = NULL
          /\ clears' = clears + 1
          /\ IF ring3_exception_frame # NULL
             THEN /\ user' = ef
                  /\ ring3_exception_frame' = NULL
             ELSE UNCHANGED <<user, ring3_exception_frame>>
          /\ esp' = tss_esp0
          /\ pc' = jump_to(ring0_continuation)
          /\ UNCHANGED console
     ELSE /\ console' = console
          /\ pc' = "halted"           \* wait_forever()
          /\ UNCHANGED <<ring0_continuation, clears, user,
                         ring3_exception_frame, esp>>
  /\ UNCHANGED <<tss_esp0, ef, result, svars, bvars>>

\* Mutant: the handler returns through the stub's iret, back into the
\* reduced-privilege code, in place of the jump to the continuation.
irq_entry_returns ==
  /\ pc = "irq_entry"
  /\ IF (ef.cs % 4) # 0 /\ ring0_continuation # NULL
     THEN /\ ring0_continuation' = NULL
          /\ clears' = clears + 1
          /\ IF ring3_exception_frame # NULL
             THEN /\ user' = ef
                  /\ ring3_exception_frame' = NULL
             ELSE UNCHANGED <<user, ring3_exception_frame>>
          /\ pc' = "ring3"
          /\ UNCHANGED <<console, esp>>
     ELSE /\ console' \in fatal_output(ef)
          /\ pc' = "halted"           \* wait_forever()
          /\ UNCHANGED <<ring0_continuation, clears, user,
                         ring3_exception_frame, esp>>
  /\ UNCHANGED <<tss_esp0, ef, result, svars, bvars>>

\* irq_entry(ef), lines 159-180.
irq_entry ==
  /\ pc = "irq_entry"
  /\ IF (ef.cs % 4) # 0 /\ ring0_continuation # NULL
     THEN /\ ring0_continuation' = NULL
          /\ clears' = clears + 1
          /\ IF ring3_exception_frame # NULL
             THEN /\ user' = ef
                  /\ ring3_exception_frame' = NULL
             ELSE UNCHANGED <<user, ring3_exception_frame>>
          /\ esp' = tss_esp0
          /\ pc' = jump_to(ring0_continuation)
          /\ UNCHANGED console
     ELSE /\ console' \in fatal_output(ef)
          /\ pc' = "halted"           \* wait_forever()
          /\ UNCHANGED <<ring0_continuation, clears, user,
                         ring3_exception_frame, esp>>
  /\ UNCHANGED <<tss_esp0, ef, result, svars, bvars>>

\* execute_user, lines 213-225: restore ebp/edi, return user and leave the
\* function, which takes esp back up to the caller's stack pointer.
execute_user_return ==
  /\ pc = "resumed"
  /\ result' = user
  /\ esp' = esp + FrameDepth
  /\ pc' = "idle"
  /\ UNCHANGED <<ring0_continuation, ring3_exception_frame, tss_esp0, user,
                 ef, clears, svars, console, bvars>>

(***************************************************************************)
(* Construction: search_engine(max_prefixes, used_prefixes,                *)
(* detect_prefixes, start); instruction_bytes(v...) zero-fills the rest.   *)
(***************************************************************************)
instruction_bytes(v) ==
  [i \in Index |-> IF i < Len(v) THEN v[i + 1] ELSE 0]

\* Start values explored: leading bytes, the rest zero.
StartValues ==
  { instruction_bytes(v) :
      v \in { <<>>, <<63>>, <<100>>, <<255>>, <<101, 102>>,
              <<243, 102, 103>>,
              <<1, 2, 3, 4, 5, 6, 7, 8, 9, 10, 11, 12, 13, 14, 255>> } }

\* Configurations explored: <<max_prefixes, used_prefixes, detect_prefixes>>
\* as given to the constructor.  The first is the constructor's default.
Configs ==
  { <<0, 255, 255>>, <<1, 4, 255>>, <<2, 255, 29>>, <<3, 27, 255>> }

\* Values <<used_prefixes, detect_prefixes>> of the two namespace-scope names
\* explored with an engine of configuration c: the masks of c, and all
\* groups permitted and detected.
NamespaceMasks(c) == { <<c[2], c[3]>>, <<255, 255>> }

\* Start-up: the two names hold their values before an engine is constructed.
namespace_scope(used, detect) ==
  /\ used_prefixes = used
  /\ detect_prefixes = detect

\* The member initialisers of the constructor; increment_at_ = 0 is the
\* default member initialiser.
search_engine(max_prefixes, used, detect, start) ==
  /\ current_ = start
  /\ increment_at_ = 0
  /\ max_prefixes_ = max_prefixes
  /\ configured_maximum = max_prefixes
  /\ used_prefixes_ = used
  /\ group_lut_ = detect

\* The bookkeeping of a freshly constructed engine.
Fresh ==
  /\ ret = "none"
  /\ op = "construct"
  /\ arg = 0
  /\ entry_raw = current_
  /\ entry_at = 0
  /\ first_write = <<>>
  /\ calls = 0
  /\ yielded = <<>>

InitSearch ==
  /\ \E c \in Configs :
       /\ \E n \in NamespaceMasks(c) : namespace_scope(n[1], n[2])
       /\ \E st \in StartValues : search_engine(c[1], c[2], c[3], st)
  /\ Fresh

\* Positions clear_after is called with: every index of the buffer, its
\* size, and beyond it.
ClearPositions == 0 .. (RawSize + 1)

\* No call follows one that did not return.
Returned == ret # "no_return"

\* The caller: any call in any order, MaxCalls calls in all.  start_over is
\* given the length of an instruction, 1..15.

FindNextCall ==
  calls < MaxCalls /\ Returned /\ find_next_candidate /\ UNCHANGED avars
StartOverCall ==
  /\ calls < MaxCalls
  /\ Returned
  /\ \E length \in 1 .. RawSize : start_over(length)
  /\ UNCHANGED avars
ClearAfterCall ==
  /\ calls < MaxCalls
  /\ Returned
  /\ \E pos \in ClearPositions : clear_after(pos)
  /\ UNCHANGED avars

\* The engine is exercised with the processor left in privileged code.
ArchIdle == InitArch /\ esp = 65536 /\ paging_on

Init == InitSearch /\ ArchIdle

Next == FindNextCall \/ StartOverCall \/ ClearAfterCall

Spec == Init /\ [][Next]_vars

(***************************************************************************)
(* The same caller with start_over given any length: start_over stores     *)
(* length - 1 unchecked (search.cpp:148).  Beyond the instruction lengths  *)
(* these are 0, which leaves the cursor at SIZE_MAX, 16, which leaves it   *)
(* on the padding byte behind the buffer, 17, which leaves it on its own   *)
(* low byte, and MemberLength.                                              *)
(***************************************************************************)
AnyLengths == (0 .. (RawSize + 2)) \cup {MemberLength}

StartOverAnyCall ==
  /\ calls < MaxCalls
  /\ Returned
  /\ \E length \in AnyLengths : start_over(length)
  /\ UNCHANGED avars

NextAnyLength == FindNextCall \/ StartOverAnyCall \/ ClearAfterCall

SpecAnyLength == Init /\ [][NextAnyLength]_vars

(***************************************************************************)
(* Enumeration of one-byte candidates: a fresh engine with an all-zero     *)
(* buffer, start_over(1), then find_next_candidate until it returns false. *)
(* The caller keeps calling, which is the fairness of SpecEnum.            *)
(***************************************************************************)
DefaultConfig == <<0, 255, 255>>
\* max_prefixes = 1, only the operand-size group permitted, all five detected.
OperandSizeOnlyConfig == <<1, 4, 31>>

InitEnum ==
  /\ \E c \in {DefaultConfig, OperandSizeOnlyConfig} :
       /\ \E n \in NamespaceMasks(c) : namespace_scope(n[1], n[2])
       /\ search_engine(c[1], c[2], c[3], instruction_bytes(<<>>))
  /\ Fresh
  /\ ArchIdle

EnumStart == op = "construct" /\ start_over(1) /\ UNCHANGED avars
EnumFind ==
  op # "construct" /\ ret # "false" /\ find_next_candidate /\ UNCHANGED avars

NextEnum == EnumStart \/ EnumFind

SpecEnum == InitEnum /\ [][NextEnum]_vars /\ WF_vars(NextEnum)

(***************************************************************************)
(* The ring-3 execution protocol on its own: the caller runs execute_user  *)
(* again and again.                                                        *)
(***************************************************************************)
InitArchOnly ==
  /\ InitArch
  /\ paging_on
  /\ esp \in KernelStacks
  /\ namespace_scope(255, 255)
  /\ search_engine(0, 255, 255, instruction_bytes(<<>>))
  /\ Fresh

NextArch ==
  \/ \E ip \in EntryIps : execute_user_prepare(ip)
  \/ execute_user_transfer
  \/ irq_exit
  \/ user_exception
  \/ kernel_exception
  \/ irq_entry
  \/ execute_user_return

SpecArch == InitArchOnly /\ [][NextArch]_vars

\* One thread of control: the code of execute_user, irq_exit and irq_entry
\* runs on, and the trap flag of the template makes the processor deliver
\* an exception once reduced-privilege code runs.  Nothing makes the caller
\* call again or a privileged exception arrive.
SpecArchLive ==
  /\ InitArchOnly
  /\ [][NextArch]_vars
  /\ WF_vars(execute_user_transfer)
  /\ WF_vars(irq_exit)
  /\ WF_vars(user_exception)
  /\ WF_vars(irq_entry)
  /\ WF_vars(execute_user_return)

(***************************************************************************)
(* setup_paging on its own, from reset, for the images and processors      *)
(* below.                                                                  *)
(***************************************************************************)
\* <<_image_start, _image_end>>: at 4 MiB and 8 MiB with one, two and three
\* directory entries; at 0 below and across the user page; off the 4 MiB
\* boundary at 1 MiB (across the user page), 2 MiB and 4 MiB + 4 KiB.
Images ==
  { <<4194304, 4227072>>, <<4194304, 8388607>>, <<4194304, 8388608>>,
    <<4194304, 9437183>>, <<8388608, 17825792>>,
    <<0, 524288>>, <<0, 2097152>>,
    <<1048576, 1572864>>, <<2097152, 3145728>>, <<4198400, 5242880>> }

CpuFeatures == [pse : BOOLEAN, wp : BOOLEAN, smep : BOOLEAN]

InitBoot ==
  /\ \E im \in Images, f \in CpuFeatures : reset_state(im[1], im[2], f)
  /\ InitArch
  /\ esp = 65536
  /\ namespace_scope(255, 255)
  /\ search_engine(0, 255, 255, instruction_bytes(<<>>))
  /\ Fresh

NextBoot ==
  \/ setup_paging_start
  \/ setup_paging_directory
  \/ setup_paging_tables
  \/ setup_paging_user
  \/ setup_paging_enable

SpecBoot == InitBoot /\ [][NextBoot]_vars

(***************************************************************************)
(* Vocabulary of the properties                                            *)
(***************************************************************************)
\* The last operation was a find_next_candidate call that returned true.
Yielded == op = "find_next_candidate" /\ ret = "true"

\* The byte maps to a prefix group.
IsPrefixByte(b) == opcode_to_prefix_group(b) >= 0

\* Length of the leading run of prefix bytes, scanning from byte 0 to the
\* first non-prefix byte or the end of the buffer.
PrefixRun(raw) ==
  CHOOSE n \in 0 .. RawSize :
    /\ \A i \in 0 .. (n - 1) : IsPrefixByte(raw[i])
    /\ n = RawSize \/ ~IsPrefixByte(raw[n])

\* a < b in lexicographic order, byte 0 most significant.
LexLess(a, b) ==
  \E i \in Index : a[i] < b[i] /\ \A j \in 0 .. (i - 1) : a[j] = b[j]

(***************************************************************************)
(* Properties of the search engine                                         *)
(***************************************************************************)
\* C1: whenever find_next_candidate returns true, after any calls with any
\* arguments, the leading run of prefix bytes of the current candidate is at
\* most as long as the maximum the engine was configured with.
C1_MaxPrefixBytes == Yielded => PrefixRun(current_) <= configured_maximum

\* C2: whenever find_next_candidate returns true, no prefix group occurs
\* twice in the leading prefix run, also when stale bytes lie right of the
\* cursor.
C2_NoDuplicateGroup ==
  Yielded =>
    \A i \in 0 .. (PrefixRun(current_) - 1) :
      \A j \in (i + 1) .. (PrefixRun(current_) - 1) :
        opcode_to_prefix_group(current_[i]) # opcode_to_prefix_group(current_[j])

\* A call at cursor 0 with the stale prefix byte 0x66 at index 1 right of the
\* cursor: the call went past 0x66 0x66 and yielded a candidate that keeps
\* the stale byte.
C2_Witness ==
  /\ Yielded
  /\ entry_at = 0
  /\ entry_raw[0] < 102
  /\ entry_raw[1] = 102
  /\ IsPrefixByte(102)
  /\ current_[0] > 102
  /\ current_[1] = 102

\* C3: whenever find_next_candidate returns true, every group in the leading
\* prefix run has its bit set in the permitted mask the engine was
\* constructed with.
C3_PermittedGroups ==
  Yielded =>
    \A i \in 0 .. (PrefixRun(current_) - 1) :
      BitTest(used_prefixes_, opcode_to_prefix_group(current_[i]))

\* C4: whenever find_next_candidate returns true, the groups of the leading
\* prefix run stand in group-id order: the byte of a lower group is at a
\* lower position than the byte of a higher group.
C4_OrderedGroups ==
  Yielded =>
    \A p \in 0 .. (PrefixRun(current_) - 1) :
      \A q \in 0 .. (PrefixRun(current_) - 1) :
        opcode_to_prefix_group(current_[p]) < opcode_to_prefix_group(current_[q])
          => p < q

\* A yielded candidate with two groups present, the lower one first.
C4_Witness ==
  /\ Yielded
  /\ PrefixRun(current_) >= 2
  /\ opcode_to_prefix_group(current_[0]) < opcode_to_prefix_group(current_[1])

\* C6: whenever find_next_candidate returns true, the candidate is strictly
\* greater, in lexicographic order, than the buffer at the start of the call.
C6_StrictlyGreater == Yielded => LexLess(entry_raw, current_)

\* C7: clear_after(p) leaves bytes [0, p) unchanged, zeroes every byte at an
\* index >= p, and leaves the cursor alone, for every p including p >= 15.
C7_ClearAfter ==
  op = "clear_after" =>
    /\ \A i \in Index :
         current_[i] = IF i < arg THEN entry_raw[i] ELSE 0
    /\ increment_at_ = entry_at

\* clear_after(p) in the middle of a buffer with non-zero bytes on both sides
\* of p.
C7_Witness ==
  /\ op = "clear_after"
  /\ arg \in 1 .. (RawSize - 1)
  /\ entry_raw[arg - 1] # 0
  /\ entry_raw[arg] # 0
  /\ current_[arg] = 0

\* C8: start_over(L) leaves the buffer unchanged, and the find_next_candidate
\* call that follows it stores first to byte L - 1, the old value plus one
\* modulo 256, and changes no byte at an index above L - 1.
C8_StartOver ==
  [][ /\ op' = "start_over" => current_' = current_
      /\ (op = "start_over" /\ op' = "find_next_candidate") =>
           /\ first_write' = <<arg - 1, (current_[arg - 1] + 1) % ByteMod>>
           /\ \A i \in Index : i > arg - 1 => current_'[i] = current_[i]
    ]_vars

\* A find_next_candidate call right after start_over(15) whose first store
\* wrapped byte 14 and which went on to change a byte left of it.
C8_Witness ==
  /\ op = "find_next_candidate"
  /\ entry_at = RawSize - 1
  /\ first_write = <<RawSize - 1, 0>>
  /\ current_[RawSize - 2] # entry_raw[RawSize - 2]

(***************************************************************************)
(* Properties of the one-byte enumeration (SpecEnum)                       *)
(***************************************************************************)
\* The engine was constructed with configuration c.
IsConfig(c) ==
  max_prefixes_ = c[1] /\ used_prefixes_ = c[2] /\ group_lut_ = c[3]

\* C5: from the all-zero buffer after start_over(1) with the default
\* configuration every call returns, repeated calls eventually return false,
\* and a call returns false exactly when it wraps byte 0 from 0xFF to 0 with
\* the cursor at index 0.
C5_Exhausts ==
  IsConfig(DefaultConfig) =>
    /\ [](op = "find_next_candidate" =>
            (ret = "false" <=>
               entry_at = 0 /\ entry_raw[0] = 255 /\ current_[0] = 0))
    /\ <>(ret = "false")

\* The exhausted enumeration: the call that found 0xFF at index 0 returned
\* false after every earlier call had returned a candidate.
C5_Witness ==
  /\ IsConfig(DefaultConfig)
  /\ ret = "false"
  /\ entry_raw[0] = 255
  /\ Len(yielded) = calls - 2

\* Leading bytes of the groups that are not permitted in the C9 scenario:
\* lock/repeat, segment, address-size, REX range.
UnpermittedLead ==
  {240, 242, 243} \cup {38, 46, 54, 62, 100, 101} \cup {103} \cup (64 .. 79)

YieldedSet == { yielded[k] : k \in 1 .. Len(yielded) }

\* C9: an engine constructed with max_prefixes = 1, only the operand-size
\* group permitted and all five groups detected, enumerating from zero,
\* never yields a candidate led by a lock/repeat, segment, address-size or
\* REX byte, yields no candidate twice, and by exhaustion has yielded 0x66
\* and every other non-zero leading byte value, each followed by zero bytes.
C9_OperandSizeOnly ==
  IsConfig(OperandSizeOnlyConfig) =>
    /\ \A k \in 1 .. Len(yielded) : yielded[k][0] \notin UnpermittedLead
    /\ Cardinality(YieldedSet) = Len(yielded)
    /\ ret = "false" =>
         /\ instruction_bytes(<<102>>) \in YieldedSet
         /\ YieldedSet =
              { instruction_bytes(<<b>>) : b \in (1 .. 255) \ UnpermittedLead }

(***************************************************************************)
(* Properties of execute_user and irq_entry (SpecArch)                     *)
(***************************************************************************)
\* C10: the resume address is set only from the store in execute_user until
\* irq_entry consumes it (a run that ends in the halt state after a
\* privileged fault never consumes it); irq_entry clears it at most once per
\* run and exactly once in a run that resumes; and whenever control is back
\* at label 1: or execute_user has returned, the resume address and the
\* capture pointer are both null.
C10_ContinuationSlot ==
  /\ ring0_continuation # NULL =>
       pc \in {"irq_exit", "ring3", "irq_entry", "halted"}
  /\ (ring0_continuation # NULL /\ pc = "halted") => (ef.cs % 4) = 0
  /\ clears <= 1
  /\ pc = "resumed" => clears = 1
  /\ pc \in {"resumed", "idle"} =>
       ring0_continuation = NULL /\ ring3_exception_frame = NULL

\* execute_user has returned a captured page fault: the handler cleared the
\* continuation once and both pointers are null.
C10_Witness ==
  /\ pc = "idle"
  /\ result.vector = 14
  /\ result.cs = ring3_code_selector
  /\ clears = 1
  /\ ring0_continuation = NULL
  /\ ring3_exception_frame = NULL

\* C11: a run that has begun the transfer ends in exactly one of two ways,
\* back in the caller with a captured reduced-privilege fault or in the halt
\* state, which is never left; reduced-privilege code is entered only by the
\* transfer, never by a return from the handler.
C11_RunCompletes ==
  /\ [](pc \in {"irq_exit", "ring3", "irq_entry"} =>
         <>(\/ pc = "halted"
            \/ pc = "idle" /\ result = ef /\ (result.cs % 4) # 0))
  /\ [](pc = "halted" => [](pc = "halted"))
  /\ [][ /\ pc = "irq_entry" => pc' \in {"resumed", "halted"}
         /\ pc' = "ring3" => pc = "irq_exit" ]_vars

\* A run ended by the single-step trap: the debug exception was captured and
\* execute_user has returned it.
C11_Witness ==
  /\ pc = "idle"
  /\ result.vector = 1
  /\ result.cs = ring3_code_selector
  /\ result.ip = user.ip
  /\ clears = 1

\* C12: the frame execute_user returns has a reduced-privilege code selector
\* and a vector the interrupt table has an entry for; a frame with a
\* privileged selector is never returned.
C12_ReturnedFault ==
  [][ (pc = "resumed" /\ pc' = "idle") =>
        /\ (result'.cs % 4) # 0
        /\ result'.vector \in 0 .. (irq_entry_count - 1) ]_vars

\* execute_user has returned the fault of the highest vector.
C12_Witness ==
  /\ pc = "idle"
  /\ result.vector = irq_entry_count - 1
  /\ (result.cs % 4) = 3

\* C15: when irq_entry is entered with a reduced-privilege frame and a
\* continuation pending, control goes to label 1: of execute_user with the
\* stack pointer tss.esp0, the value recorded at the transfer, and the
\* capture slot holding that frame; execute_user then returns exactly that
\* frame.
C15_CapturedFrame ==
  [][ /\ (pc = "prepared" /\ pc' = "irq_exit") => tss_esp0' = esp
      /\ (pc = "irq_entry" /\ (ef.cs % 4) # 0 /\ ring0_continuation # NULL) =>
           /\ ring0_continuation = Label1
           /\ pc' = "resumed"
           /\ user' = ef
           /\ esp' = tss_esp0
      /\ (pc = "resumed" /\ pc' = "idle") => result' = ef ]_vars

\* A returned page fault that differs from the template in the vector, the
\* error code, the instruction pointer and a register; the stack pointer
\* recorded at the transfer lay inside the frame of execute_user, below the
\* caller's, which is restored.
C15_Witness ==
  /\ pc = "idle"
  /\ result.vector = 14
  /\ result.error_code = 5
  /\ result.edi = 7
  /\ result.ip = 1052674
  /\ esp = tss_esp0 + FrameDepth
  /\ esp \in KernelStacks

\* C16: when irq_entry is entered with a privileged frame, or with no
\* continuation pending, it writes the diagnostic and halts: the capture
\* slot, the continuation and the stack pointer stay as they are, and no
\* step leaves the halt state.
C16_FatalFault ==
  [][ /\ (pc = "irq_entry" /\ ((ef.cs % 4) = 0 \/ ring0_continuation = NULL)) =>
           /\ pc' = "halted"
           /\ console' \in fatal_output(ef)
           /\ user' = user
           /\ ring3_exception_frame' = ring3_exception_frame
           /\ ring0_continuation' = ring0_continuation
           /\ esp' = esp
      /\ pc # "halted" ]_vars

\* The halt after a privileged exception that arrived while a continuation
\* was pending: the diagnostic is on the console, the template still in the
\* capture slot.
C16_Witness ==
  /\ pc = "halted"
  /\ ef.cs = ring0_code_selector
  /\ ring0_continuation = Label1
  /\ ring3_exception_frame = AddrUser
  /\ user.vector = 0
  /\ Len(console) = 5
  /\ console[1].values = <<ef.vector, ef.error_code, ef.cs, ef.ip>>
  /\ console[2].text = "!!! CR2 "
  /\ console[5] = WeAreDead

(***************************************************************************)
(* Properties of setup_paging (SpecBoot)                                   *)
(***************************************************************************)
HasBit(entry, bit) == (entry \div bit) % 2 = 1

\* setup_paging has run through.
BootCompleted == boot = "paging"

\* The directory indices of the image's slots, and the number of slots.
ImageIndices ==
  { c \div LargePage : c \in image_slots(image_start, image_end) }
SlotCount == Cardinality(image_slots(image_start, image_end))

\* The user page [user_page, user_page + page_size) and the image
\* [image_start, image_end] have an address in common.
UserPageOverlapsImage ==
  get_user_page <= image_end /\ image_start < get_user_page + page_size

\* The 32-bit entry the processor reads at a physical address: a filled
\* second-level entry, an entry of user_pt, or memory nothing has written.
ReadEntry(addr) ==
  IF addr \in DOMAIN mem THEN mem[addr]
  ELSE IF /\ addr >= AddrUserPt(image_start)
          /\ addr < AddrUserPt(image_start) + page_size
          /\ addr % 4 = 0
       THEN load(user_pt, (addr - AddrUserPt(image_start)) \div 4)
       ELSE 0

\* The two-level walk of the processor for the linear address a under pdt:
\* the physical address with the writable and user bits, or NotPresent.
NotPresent == [phys |-> -1, w |-> FALSE, u |-> FALSE]

Translate(a) ==
  LET pde == load(pdt, a \div LargePage)
  IN IF ~HasBit(pde, PTE_P) THEN NotPresent
     ELSE IF HasBit(pde, PTE_PS) /\ "PSE" \in cr4
     THEN [phys |-> (pde \div LargePage) * LargePage + (a % LargePage),
           w |-> HasBit(pde, PTE_W), u |-> HasBit(pde, PTE_U)]
     ELSE LET pte == ReadEntry((pde \div page_size) * page_size
                                + 4 * ((a \div page_size) % TableEntries))
          IN IF ~HasBit(pte, PTE_P) THEN NotPresent
             ELSE [phys |-> (pte \div page_size) * page_size + (a % page_size),
                   w |-> HasBit(pde, PTE_W) /\ HasBit(pte, PTE_W),
                   u |-> HasBit(pde, PTE_U) /\ HasBit(pte, PTE_U)]

\* The pages reduced-privilege code can reach under pdt.
UserAccessiblePages ==
  UNION { { idx * LargePage + k * page_size :
              k \in { j \in 0 .. (TableEntries - 1) :
                        Translate(idx * LargePage + j * page_size).u } }
          : idx \in { i \in 0 .. (TableEntries - 1) :
                        /\ HasBit(load(pdt, i), PTE_P)
                        /\ HasBit(load(pdt, i), PTE_U) } }

\* C13: for an image that does not start on a 4 MiB boundary setup_paging
\* stops at its alignment assertion: no directory entry, no table entry and
\* no control register is ever written, and paging is never on.
C13_MisalignedImage ==
  ~is_aligned(image_start, 22) =>
    /\ boot \in {"reset", "assert_alignment_failed"}
    /\ pdt = table_zero
    /\ user_pt = table_zero
    /\ mem = mem_empty
    /\ cr3 = 0
    /\ cr4 = {}
    /\ "PG" \notin cr0

\* The assertion has failed for an image that starts on a 2 MiB boundary
\* but not on a 4 MiB boundary.
C13_Witness ==
  /\ boot = "assert_alignment_failed"
  /\ image_start % 2097152 = 0
  /\ image_start % LargePage # 0

\* What holds whenever setup_paging has run through: the user page and the
\* image are disjoint, the directory entry of the user page is none of the
\* image's, and the user page is the one page reduced-privilege code reaches.
UserPageMappedApart ==
  BootCompleted =>
    /\ ~UserPageOverlapsImage
    /\ bit_select(32, 22, get_user_page) \notin ImageIndices
    /\ UserAccessiblePages = {get_user_page}

\* C14 as stated: an assertion fails exactly when the user page overlaps the
\* image, and whenever setup_paging has run through the user page is mapped
\* apart from the image.
C14_OverlapExactly ==
  /\ boot \in {"assert_alignment_failed", "assert_user_page_failed"} =>
       UserPageOverlapsImage
  /\ UserPageOverlapsImage => boot \notin {"user_mapped", "paging"}
  /\ UserPageMappedApart

\* C14, amended: the user-page assertion fails exactly when the user page
\* does not end at or below the start of the image, which refuses every
\* overlap; and whenever setup_paging has run through the user page is
\* mapped apart from the image.
C14_UserPageBelowImage ==
  /\ boot = "assert_user_page_failed" =>
       get_user_page + page_size > image_start
  /\ boot \in {"user_mapped", "paging"} =>
       get_user_page + page_size <= image_start
  /\ UserPageOverlapsImage => boot \notin {"user_mapped", "paging"}
  /\ UserPageMappedApart

\* The user-page assertion has failed for an image at 0 that reaches across
\* the user page.
C14_Witness ==
  /\ boot = "assert_user_page_failed"
  /\ UserPageOverlapsImage
  /\ is_aligned(image_start, 22)

\* The page starts of the image, and its last address.
ImageAddresses ==
  { image_start + k * page_size :
      k \in 0 .. ((image_end - image_start) \div page_size) }
  \cup {image_end}

\* C17: after setup_paging has run through every address of the image is
\* mapped to itself, writable and supervisor-only; with large pages each
\* directory entry of the image is a 4 MiB identity entry, without them each
\* points to a table of its own whose entry k maps the page at
\* slot + k * 4096 for k in 0..1023.
C17_IdentityMapping ==
  BootCompleted =>
    /\ \A a \in ImageAddresses :
         Translate(a) = [phys |-> a, w |-> TRUE, u |-> FALSE]
    /\ \A c \in image_slots(image_start, image_end) :
         IF cpu.pse
         THEN load(pdt, c \div LargePage) = c + PTE_PS + PTE_W + PTE_P
         ELSE LET t == (load(pdt, c \div LargePage) \div page_size)
                       * page_size
              IN /\ load(pdt, c \div LargePage) = t + PTE_W + PTE_P
                 /\ \A k \in 0 .. (TableEntries - 1) :
                      ReadEntry(t + 4 * k) = c + k * page_size + PTE_W + PTE_P
                 /\ \A c2 \in image_slots(image_start, image_end) :
                      c2 # c => load(pdt, c2 \div LargePage)
                                  # load(pdt, c \div LargePage)

\* Paging is on for a three-slot image without large pages.
C17_Witness ==
  /\ BootCompleted
  /\ ~cpu.pse
  /\ SlotCount = 3
  /\ "PG" \in cr0

\* The addresses the fill of the table at t stores to.
TableWrites(t) == DOMAIN write_table(mem_empty, t, 0)

\* C18: without large pages every store of the table fill lies in
\* [page_tables_start, page_tables_start + N * 4096), N the number of slots,
\* with page_tables_start the 4 KiB round-up of image_end + 4 MiB; the fill
\* of a table stores 1024 entries, all inside that table.
C18_FillInsideRegion ==
  (~cpu.pse /\ boot \in {"tables", "user_mapped", "paging",
                          "assert_user_page_failed"}) =>
    /\ page_tables_start % page_size = 0
    /\ page_tables_start >= image_end + LargePage
    /\ page_tables_start < image_end + LargePage + page_size
    /\ \A a \in DOMAIN mem :
         /\ a >= page_tables_start
         /\ a < page_tables_start + SlotCount * page_size
    /\ \A i \in 0 .. (SlotCount - 1) :
         LET t == page_tables_start + i * page_size
         IN /\ Cardinality(TableWrites(t)) = TableEntries
            /\ \A a \in TableWrites(t) : a >= t /\ a < t + page_size

(***************************************************************************)
(* Further properties of the search engine (Spec)                          *)
(***************************************************************************)
\* C19: the cursor is an index of the 15-byte buffer in every state, also
\* after find_next_candidate has returned false.
C19_CursorInside == increment_at_ \in Index

\* The buffer passes the four prefix filters.
Acceptable(raw) == ~rejected(analyze_prefixes(raw), max_prefixes_)

\* One byte of every prefix group and two bytes of no group.  The filters
\* see a byte only through its group, so these stand for all byte values.
ClassBytes == {0, 255, 240, 46, 102, 103, 64}

\* The first index at which a and b differ.
FirstDifference(a, b) ==
  CHOOSE i \in Index : a[i] # b[i] /\ \A j \in 0 .. (i - 1) : a[j] = b[j]

\* Buffers strictly between b and c that agree with b right of the cursor
\* k: every value at the first index j where b and c differ, and right of j
\* up to k a byte of every class (or the byte of b or c) at the indices up
\* to max_prefixes_, the bytes of b or of c at the indices beyond.  A prefix
\* run that reaches beyond index max_prefixes_ - 1 is rejected for its
\* length, so the bytes 0 .. max_prefixes_ decide whether a buffer passes.
Between(b, c, k) ==
  LET j == FirstDifference(b, c)
      free == { p \in (j + 1) .. k : p <= max_prefixes_ }
      tails == [ free -> ClassBytes ]
               \cup { [p \in free |-> b[p]], [p \in free |-> c[p]] }
  IN { x \in { [p \in Index |-> IF p = j THEN v
                                 ELSE IF p \in free THEN t[p]
                                 ELSE IF p \in (j + 1) .. k THEN f[p]
                                 ELSE b[p]] :
                v \in b[j] .. c[j], t \in tails, f \in {b, c} } :
         LexLess(b, x) /\ LexLess(x, c) }

\* C20: a call entered with cursor k and buffer B that returns true leaves
\* the least buffer that is greater than B, agrees with B right of k and
\* passes the four filters; a call that returns false had no such buffer:
\* not even B with one byte at or left of k raised to 0xFF is greater than
\* B and passes.
C20_LeastSuccessor ==
  op = "find_next_candidate" =>
    /\ ret = "true" =>
         /\ LexLess(entry_raw, current_)
         /\ \A i \in Index : i > entry_at => current_[i] = entry_raw[i]
         /\ Acceptable(current_)
         /\ \A x \in Between(entry_raw, current_, entry_at) : ~Acceptable(x)
    /\ ret = "false" =>
         \A i \in Index :
           i <= entry_at =>
             LET x == [entry_raw EXCEPT ![i] = 255]
             IN ~(LexLess(entry_raw, x) /\ Acceptable(x))

====
